---------------------------- MODULE Spec2Model ----------------------------
(***************************************************************************)
(* Conversation / session synchronisation layer of the Genshin chat        *)
(* client: the useConversations directory, the useChat message exchange    *)
(* controller, the ApiSessionsRepository and the device identity provider, *)
(* together with the ChatPage wiring that decides which handler the user   *)
(* can reach in which state.                                               *)
(*                                                                         *)
(* Texts are tuples of one-character strings, so that trim, length and     *)
(* substring are computed.  Dates are integers (milliseconds abstracted to *)
(* ticks of the variable now).  Identifiers produced by crypto.randomUUID  *)
(* are the positive integers handed out by idCount; identifiers minted by  *)
(* the remote service are negative integers.  The createdAt field of a     *)
(* Message is not modelled: no handler reads it.                           *)
(***************************************************************************)
EXTENDS Integers, Sequences, FiniteSets, TLC

(* ------------------------------ bounds -------------------------------- *)

\* user operations that grow the state (a send that goes through, a select
\* that fetches, a click on "New Conversation") in one behaviour
MaxOps == 2

\* last tick of the browser clock
MaxTime == 1

\* sessions the remote service may list
MaxRemote == 2

\* length of the transcript the remote service returns for a session that
\* has messages (it returns the empty transcript as well)
MaxTranscript == 3

\* direct calls of the identity functions in one behaviour
MaxCalls == 4

\* longest run of letters given to deriveTitleFromMessage
MaxText == 28

\* longest run of blanks before and after it
MaxPad == 1

(* ------------------------------- state -------------------------------- *)

VARIABLES
    hasWindow,             \* typeof window !== "undefined"
    localStorage,          \* value stored under USER_ID_KEY, NoUser when absent
    idCount,               \* number of identifiers crypto.randomUUID has produced
    now,                   \* the browser clock read by new Date()
    conversations,         \* useConversations: useState<Conversation[]>
    activeConversationId,  \* useConversations: useState<string | null>
    isLoading,             \* useConversations: useState(true)
    isTyping,              \* useChat: useState(false)
    loadPc,                \* position of the mount effect loadSessions
    gets,                  \* selectConversation calls suspended at await getSession
    sends,                 \* sendMessage calls suspended at await sendChatMessage,
                           \* each with its request and the locals it resumes with
    reqCount,              \* getSession and chat requests issued so far
    opCount,               \* user operations counted against MaxOps
    rejected,              \* handlers whose promise ended rejected
    caller                 \* a direct caller of the library functions: the
                           \* calls it has made and what each returned

vars == <<hasWindow, localStorage, idCount, now, conversations,
          activeConversationId, isLoading, isTyping, loadPc, gets, sends,
          reqCount, opCount, rejected, caller>>

\* the state of the two hooks and of the requests they have in flight
hooks == <<now, conversations, activeConversationId, isLoading, isTyping,
           loadPc, gets, sends, reqCount, opCount, rejected>>

\* the empty string returned by getOrCreateUserId / null in localStorage
NoUser == 0

\* activeConversationId === null
Null == 0

(* ------------------------------- texts -------------------------------- *)

Whitespace == {" "}

RECURSIVE TrimStart(_)
TrimStart(s) ==
    IF s # <<>> /\ Head(s) \in Whitespace THEN TrimStart(Tail(s)) ELSE s

RECURSIVE TrimEnd(_)
TrimEnd(s) ==
    IF s # <<>> /\ s[Len(s)] \in Whitespace
    THEN TrimEnd(SubSeq(s, 1, Len(s) - 1))
    ELSE s

\* String.prototype.trim
Trim(s) == TrimEnd(TrimStart(s))

maxLength == 25

Ellipsis == <<".", ".", ".">>

\* deriveTitleFromMessage keeping the whole title within maxLength
deriveTitleFromMessageWithin(message) ==
    LET cleaned == Trim(message)
    IN  IF Len(cleaned) <= maxLength
        THEN cleaned
        ELSE SubSeq(cleaned, 1, maxLength - Len(Ellipsis)) \o Ellipsis

\* deriveTitleFromMessage with < in place of <=
deriveTitleFromMessageStrict(message) ==
    LET cleaned == Trim(message)
    IN  IF Len(cleaned) < maxLength
        THEN cleaned
        ELSE SubSeq(cleaned, 1, maxLength) \o Ellipsis

deriveTitleFromMessage(message) ==
    LET cleaned == Trim(message)
    IN  IF Len(cleaned) <= maxLength
        THEN cleaned
        ELSE SubSeq(cleaned, 1, maxLength) \o Ellipsis

NewConversationTitle ==
    <<"N", "e", "w", " ", "C", "o", "n", "v", "e", "r", "s", "a", "t", "i",
      "o", "n">>

ErrorText ==
    <<"S", "o", "r", "r", "y", ",", " ", "I", " ", "e", "n", "c", "o", "u",
      "n", "t", "e", "r", "e", "d", " ", "a", "n", " ", "e", "r", "r", "o",
      "r", ".", " ", "P", "l", "e", "a", "s", "e", " ", "t", "r", "y", " ",
      "a", "g", "a", "i", "n", ".">>

\* QUICK_PROMPTS[0]
QUICK_PROMPTS ==
    { <<"T", "e", "l", "l", " ", "m", "e", " ", "a", "b", "o", "u", "t", " ",
        "M", "o", "n", "d", "s", "t", "a", "d", "t">> }

\* what the user may have typed into the Composer's textarea
ComposerInputs == { <<" ">>, <<" ", "h", "i">> }

\* the response field of a successful chat exchange
ResponseTexts == { <<"o", "k">> }

\* a title stored by the remote service
RemoteTitle == <<"r">>

(* ---------------------------- placeholders ---------------------------- *)

createNewConversation(id) ==
    [id |-> id, title |-> NewConversationTitle, messages |-> <<>>,
     createdAt |-> now, updatedAt |-> now]

createMessage(id, role, content) ==
    [id |-> id, role |-> role, content |-> content]

(* ------------------------- device identity ---------------------------- *)

\* getOrCreateUserId with localStorage.setItem left out
getOrCreateUserIdNoPersist ==
    IF ~hasWindow
    THEN [userId |-> NoUser, stored |-> localStorage, ids |-> idCount]
    ELSE IF localStorage = NoUser
         THEN [userId |-> idCount + 1, stored |-> localStorage,
               ids |-> idCount + 1]
         ELSE [userId |-> localStorage, stored |-> localStorage,
               ids |-> idCount]

\* the value returned, and localStorage and the uuid counter after the call
getOrCreateUserId ==
    IF ~hasWindow
    THEN [userId |-> NoUser, stored |-> localStorage, ids |-> idCount]
    ELSE IF localStorage = NoUser
         THEN [userId |-> idCount + 1, stored |-> idCount + 1,
               ids |-> idCount + 1]
         ELSE [userId |-> localStorage, stored |-> localStorage,
               ids |-> idCount]

\* clearUserId raising where there is no window
clearUserIdThrows ==
    IF hasWindow
    THEN [threw |-> FALSE, stored |-> NoUser]
    ELSE [threw |-> TRUE, stored |-> localStorage]

\* whether the call raised, and localStorage after it
clearUserId ==
    IF hasWindow
    THEN [threw |-> FALSE, stored |-> NoUser]
    ELSE [threw |-> FALSE, stored |-> localStorage]

hasUserId ==
    IF ~hasWindow THEN FALSE ELSE localStorage # NoUser

(* --------------------------- remote service --------------------------- *)

\* updated_at as stamped by the service's clock: not after the browser's
\* first reading, or ahead of it
RemoteTimes == {0, 1}

\* the session lists the service may answer with: n rows, the i-th with the
\* i-th remote id, each with any updated_at
SessionLists ==
    UNION {[1..n -> RemoteTimes] : n \in 0..MaxRemote}

\* row i of the sessions array of GET /api/v1/sessions
SessionRow(times, i) ==
    [id |-> 0 - i, title |-> RemoteTitle, created_at |-> 0,
     updated_at |-> times[i]]

RECURSIVE RemoteMessages(_)
\* the transcript of n messages stored remotely: user and assistant in turn
RemoteMessages(n) ==
    IF n = 0 THEN <<>>
    ELSE Append(RemoteMessages(n - 1),
                [id |-> 0 - (MaxRemote + n),
                 role |-> IF n % 2 = 1 THEN "user" ELSE "assistant",
                 content |-> <<"m">>])

\* res.ok
ResOk(res) == res.status >= 200 /\ res.status <= 299

\* fetch() rejected: no response at all
NetworkError == [status |-> 0, failed |-> TRUE]

ListResponses ==
    {NetworkError}
      \cup {[status |-> 500, failed |-> FALSE]}
      \cup {[status |-> 200, failed |-> FALSE,
             sessions |-> [i \in 1..Len(l) |-> SessionRow(l, i)]] :
               l \in SessionLists}

GetResponses ==
    {NetworkError}
      \cup {[status |-> 500, failed |-> FALSE],
            [status |-> 404, failed |-> FALSE]}
      \cup {[status |-> 200, failed |-> FALSE, title |-> RemoteTitle,
             messages |-> RemoteMessages(n)] : n \in {0, MaxTranscript}}

ChatResponses ==
    {NetworkError}
      \cup {[status |-> 500, failed |-> FALSE]}
      \cup {[status |-> 200, failed |-> FALSE, response |-> t] :
               t \in ResponseTexts}

(* ------------------------ ApiSessionsRepository ----------------------- *)

\* a repository call either throws or returns a value
Throw == [threw |-> TRUE]

Return(v) == [threw |-> FALSE, value |-> v]

listSessions(res) ==
    IF res.failed \/ ~ResOk(res)
    THEN Throw
    ELSE Return([i \in 1..Len(res.sessions) |->
                   [id |-> res.sessions[i].id,
                    title |-> res.sessions[i].title,
                    messages |-> <<>>,
                    createdAt |-> res.sessions[i].created_at,
                    updatedAt |-> res.sessions[i].updated_at]])

\* absent is the value null
Absent == [absent |-> TRUE]

\* getSession with the res.ok test placed before the 404 test
getSessionOkFirst(sessionId, res) ==
    IF res.failed THEN Throw
    ELSE IF ~ResOk(res) THEN Throw
    ELSE IF res.status = 404 THEN Return(Absent)
    ELSE Return([absent |-> FALSE, id |-> sessionId, title |-> res.title,
                 messages |-> res.messages, createdAt |-> now,
                 updatedAt |-> now])

getSession(sessionId, res) ==
    IF res.failed THEN Throw
    ELSE IF res.status = 404 THEN Return(Absent)
    ELSE IF ~ResOk(res) THEN Throw
    ELSE Return([absent |-> FALSE, id |-> sessionId, title |-> res.title,
                 messages |-> res.messages, createdAt |-> now,
                 updatedAt |-> now])

sendChatMessage(res) ==
    IF res.failed \/ ~ResOk(res)
    THEN Throw
    ELSE Return([response |-> res.response])

(* --------------------------- useConversations ------------------------- *)

\* index of the first conversation with this id, 0 when there is none
FindIndex(convs, id) ==
    IF \E i \in 1..Len(convs) : convs[i].id = id
    THEN CHOOSE i \in 1..Len(convs) :
            /\ convs[i].id = id
            /\ \A j \in 1..(i - 1) : convs[j].id # id
    ELSE 0

\* conversations.find((c) => c.id === activeConversationId) ?? null, as an index
activeConversation == FindIndex(conversations, activeConversationId)

\* { ...c, ...updates }
Merge(c, updates) ==
    [f \in DOMAIN c |-> IF f \in DOMAIN updates THEN updates[f] ELSE c[f]]

updateConversation(convs, conversationId, updates) ==
    [i \in 1..Len(convs) |->
        IF convs[i].id = conversationId
        THEN [Merge(convs[i], updates) EXCEPT !.updatedAt = now]
        ELSE convs[i]]

updateConversationTitle(convs, conversationId, firstMessage) ==
    updateConversation(convs, conversationId,
                       [title |-> deriveTitleFromMessage(firstMessage)])

RECURSIVE SortInsertAscending(_, _)
\* the insertion of a sort whose comparator is a.updatedAt - b.updatedAt
SortInsertAscending(sorted, c) ==
    IF sorted = <<>> THEN <<c>>
    ELSE IF Head(sorted).updatedAt <= c.updatedAt
         THEN <<Head(sorted)>> \o SortInsertAscending(Tail(sorted), c)
         ELSE <<c>> \o sorted

RECURSIVE SortInsert(_, _)
\* c placed after every element whose updatedAt is not smaller (stable)
SortInsert(sorted, c) ==
    IF sorted = <<>> THEN <<c>>
    ELSE IF Head(sorted).updatedAt >= c.updatedAt
         THEN <<Head(sorted)>> \o SortInsert(Tail(sorted), c)
         ELSE <<c>> \o sorted

RECURSIVE SortByUpdatedAtDesc(_)
\* [...convs].sort((a, b) => b.updatedAt.getTime() - a.updatedAt.getTime())
SortByUpdatedAtDesc(convs) ==
    IF convs = <<>> THEN <<>>
    ELSE SortInsert(SortByUpdatedAtDesc(SubSeq(convs, 1, Len(convs) - 1)),
                    convs[Len(convs)])

\* the list useConversations returns as "conversations"
sortedConversations == SortByUpdatedAtDesc(conversations)

(* the mount effect: loadSessions up to its await *)
loadSessions ==
    /\ loadPc = "mount"
    /\ LET u == getOrCreateUserId
       IN  /\ localStorage' = u.stored
           /\ idCount' = u.ids
           /\ IF u.userId = NoUser
              THEN /\ isLoading' = FALSE
                   /\ loadPc' = "done"
              ELSE /\ isLoading' = isLoading
                   /\ loadPc' = "pending"
    /\ UNCHANGED <<hasWindow, now, conversations, activeConversationId,
                   isTyping, gets, sends, reqCount, opCount,
                   rejected>>

\* the promise of an async handler that ran to its end / that let an
\* exception escape
Settled(name, promise) ==
    IF promise = "rejected" THEN rejected \cup {name} ELSE rejected

\* loadSessions with the catch block's setConversations([]) left out
loadSessionsAfterAwaitKeepsOnError(r) ==
    IF r.threw
    THEN [conversations |-> conversations, isLoading |-> FALSE,
          promise |-> "fulfilled"]
    ELSE [conversations |-> r.value, isLoading |-> FALSE,
          promise |-> "fulfilled"]

\* loadSessions after the await: try / catch / finally on the result r of
\* listSessions
loadSessionsAfterAwait(r) ==
    IF r.threw
    THEN [conversations |-> <<>>, isLoading |-> FALSE, promise |-> "fulfilled"]
    ELSE [conversations |-> r.value, isLoading |-> FALSE,
          promise |-> "fulfilled"]

(* loadSessions from the moment listSessions settles *)
loadSessionsSettle(res) ==
    /\ loadPc = "pending"
    /\ LET after == loadSessionsAfterAwait(listSessions(res))
       IN  /\ conversations' = after.conversations
           /\ isLoading' = after.isLoading
           /\ rejected' = Settled("loadSessions", after.promise)
    /\ loadPc' = "done"
    /\ UNCHANGED <<hasWindow, localStorage, idCount, now,
                   activeConversationId, isTyping, gets, sends, reqCount,
                   opCount>>

\* selectConversation without the "already loaded" early return
selectConversationAlwaysFetches(conversationId) ==
    /\ loadPc # "mount"
    /\ activeConversationId' = conversationId
    /\ LET u == getOrCreateUserId
       IN  /\ localStorage' = u.stored
           /\ idCount' = u.ids
           /\ IF u.userId = NoUser
              THEN UNCHANGED <<gets, reqCount, opCount>>
              ELSE /\ opCount < MaxOps
                   /\ opCount' = opCount + 1
                   /\ reqCount' = reqCount + 1
                   /\ gets' = gets \cup {[rid |-> reqCount + 1,
                                          userId |-> u.userId,
                                          sessionId |-> conversationId]}
    /\ UNCHANGED <<hasWindow, now, conversations, isLoading, isTyping,
                   loadPc, sends, rejected>>

\* selectConversation fetching only for conversations the remote list gave
selectConversationKnownRemoteOnly(conversationId) ==
    /\ loadPc # "mount"
    /\ activeConversationId' = conversationId
    /\ LET u == getOrCreateUserId
           existing == FindIndex(conversations, conversationId)
       IN  /\ localStorage' = u.stored
           /\ idCount' = u.ids
           /\ IF \/ u.userId = NoUser
                 \/ (existing # 0 /\ Len(conversations[existing].messages) > 0)
                 \/ conversationId > 0
              THEN UNCHANGED <<gets, reqCount, opCount>>
              ELSE /\ opCount < MaxOps
                   /\ opCount' = opCount + 1
                   /\ reqCount' = reqCount + 1
                   /\ gets' = gets \cup {[rid |-> reqCount + 1,
                                          userId |-> u.userId,
                                          sessionId |-> conversationId]}
    /\ UNCHANGED <<hasWindow, now, conversations, isLoading, isTyping,
                   loadPc, sends, rejected>>

(* selectConversation up to its await *)
selectConversation(conversationId) ==
    /\ loadPc # "mount"
    /\ activeConversationId' = conversationId
    /\ LET u == getOrCreateUserId
           existing == FindIndex(conversations, conversationId)
       IN  /\ localStorage' = u.stored
           /\ idCount' = u.ids
           /\ IF \/ u.userId = NoUser
                 \/ (existing # 0 /\ Len(conversations[existing].messages) > 0)
              THEN UNCHANGED <<gets, reqCount, opCount>>
              ELSE /\ opCount < MaxOps
                   /\ opCount' = opCount + 1
                   /\ reqCount' = reqCount + 1
                   /\ gets' = gets \cup {[rid |-> reqCount + 1,
                                          userId |-> u.userId,
                                          sessionId |-> conversationId]}
    /\ UNCHANGED <<hasWindow, now, conversations, isLoading, isTyping,
                   loadPc, sends, rejected>>

\* selectConversation after the await, had it no catch
selectConversationAfterAwaitNoCatch(conversationId, r) ==
    IF r.threw
    THEN [conversations |-> conversations, promise |-> "rejected"]
    ELSE IF r.value.absent
    THEN [conversations |-> conversations, promise |-> "fulfilled"]
    ELSE [conversations |->
            [i \in 1..Len(conversations) |->
                IF conversations[i].id = conversationId
                THEN [conversations[i] EXCEPT
                        !.messages = r.value.messages,
                        !.title = r.value.title]
                ELSE conversations[i]],
          promise |-> "fulfilled"]

\* selectConversation after the await, had the merge spread the whole
\* fetched session over the record: { ...c, ...session }
selectConversationAfterAwaitSpreadsSession(conversationId, r) ==
    IF r.threw
    THEN [conversations |-> conversations, promise |-> "fulfilled"]
    ELSE IF r.value.absent
    THEN [conversations |-> conversations, promise |-> "fulfilled"]
    ELSE [conversations |->
            [i \in 1..Len(conversations) |->
                IF conversations[i].id = conversationId
                THEN [conversations[i] EXCEPT
                        !.messages = r.value.messages,
                        !.title = r.value.title,
                        !.createdAt = r.value.createdAt,
                        !.updatedAt = r.value.updatedAt]
                ELSE conversations[i]],
          promise |-> "fulfilled"]

\* selectConversation after the await: try / catch on the result r of
\* getSession
selectConversationAfterAwait(conversationId, r) ==
    IF r.threw
    THEN [conversations |-> conversations, promise |-> "fulfilled"]
    ELSE IF r.value.absent
    THEN [conversations |-> conversations, promise |-> "fulfilled"]
    ELSE [conversations |->
            [i \in 1..Len(conversations) |->
                IF conversations[i].id = conversationId
                THEN [conversations[i] EXCEPT
                        !.messages = r.value.messages,
                        !.title = r.value.title]
                ELSE conversations[i]],
          promise |-> "fulfilled"]

(* selectConversation from the moment getSession settles *)
selectConversationSettle(g, res) ==
    /\ g \in gets
    /\ gets' = gets \ {g}
    /\ LET after == selectConversationAfterAwait(
                        g.sessionId, getSession(g.sessionId, res))
       IN  /\ conversations' = after.conversations
           /\ rejected' = Settled("selectConversation", after.promise)
    /\ UNCHANGED <<hasWindow, localStorage, idCount, now,
                   activeConversationId, isLoading, isTyping, loadPc, sends,
                   reqCount, opCount>>

\* createConversation with setActiveConversationId(newConversation.id)
\* left out
createConversationNoActivate ==
    /\ loadPc # "mount"
    /\ opCount < MaxOps
    /\ opCount' = opCount + 1
    /\ conversations' = <<createNewConversation(idCount + 1)>> \o conversations
    /\ idCount' = idCount + 1
    /\ UNCHANGED <<hasWindow, localStorage, now, activeConversationId,
                   isLoading, isTyping, loadPc, gets, sends, reqCount,
                   rejected>>

(* the "New Conversation" button: handleNewConversation -> createConversation *)
createConversation ==
    /\ loadPc # "mount"
    /\ opCount < MaxOps
    /\ opCount' = opCount + 1
    /\ LET newConversation == createNewConversation(idCount + 1)
       IN  /\ conversations' = <<newConversation>> \o conversations
           /\ activeConversationId' = newConversation.id
    /\ idCount' = idCount + 1
    /\ UNCHANGED <<hasWindow, localStorage, now, isLoading, isTyping, loadPc,
                   gets, sends, reqCount, rejected>>

(* ------------------------------- useChat ------------------------------ *)

\* sendMessage with the identity check removed
sendMessageRejectsEmptyOnly(text, u) == text = <<>>

\* the early returns of sendMessage: empty content, no user id
sendMessageRejects(text, u) == text = <<>> \/ u.userId = NoUser

(* sendMessage up to its await *)
sendMessage(content) ==
    LET text == Trim(content)
        u == getOrCreateUserId
    IN  IF sendMessageRejects(text, u)
        THEN /\ localStorage' = (IF text = <<>> THEN localStorage ELSE u.stored)
             /\ idCount' = (IF text = <<>> THEN idCount ELSE u.ids)
             /\ UNCHANGED <<hasWindow, now, conversations,
                            activeConversationId, isLoading, isTyping, loadPc,
                            gets, sends, reqCount, opCount, rejected>>
        ELSE LET created == activeConversation = 0
                 conversation ==
                    IF created THEN createNewConversation(u.ids + 1)
                    ELSE conversations[activeConversation]
                 ids1 == IF created THEN u.ids + 1 ELSE u.ids
                 userMessage == createMessage(ids1 + 1, "user", text)
                 isFirstMessage == Len(conversation.messages) = 0
                 updatedMessages == Append(conversation.messages, userMessage)
                 c1 == IF created THEN <<conversation>> \o conversations
                       ELSE conversations
                 c2 == updateConversation(c1, conversation.id,
                                          [messages |-> updatedMessages])
                 c3 == IF isFirstMessage
                       THEN updateConversationTitle(c2, conversation.id, text)
                       ELSE c2
             IN  /\ opCount < MaxOps
                 /\ opCount' = opCount + 1
                 /\ reqCount' = reqCount + 1
                 /\ localStorage' = u.stored
                 /\ idCount' = ids1 + 1
                 /\ conversations' = c3
                 /\ activeConversationId' =
                       (IF created THEN conversation.id
                        ELSE activeConversationId)
                 /\ isTyping' = TRUE
                 /\ sends' = sends \cup
                       {[rid |-> reqCount + 1,
                         userId |-> u.userId,
                         sessionId |-> conversation.id,
                         message |-> text,
                         activeConversation |->
                            (IF created THEN Null ELSE conversation.id),
                         conversationId |-> conversation.id,
                         updatedMessages |-> updatedMessages]}
                 /\ UNCHANGED <<hasWindow, now, isLoading, loadPc, gets,
                                rejected>>

\* sendMessage after the await, had it cleared the flag at the end of the
\* try block instead of in a finally block
sendMessageAfterAwaitNoFinally(s, r) ==
    IF r.threw
    THEN LET errorMessage == createMessage(idCount + 1, "assistant", ErrorText)
         IN  [conversations |->
                updateConversation(conversations, s.conversationId,
                    [messages |-> Append(s.updatedMessages, errorMessage)]),
              isTyping |-> isTyping, promise |-> "fulfilled"]
    ELSE LET assistantMessage ==
                createMessage(idCount + 1, "assistant", r.value.response)
         IN  [conversations |->
                updateConversation(conversations, s.conversationId,
                    [messages |-> Append(s.updatedMessages, assistantMessage)]),
              isTyping |-> FALSE, promise |-> "fulfilled"]

\* sendMessage after the await, had it put the assistant message in front
\* of the captured transcript
sendMessageAfterAwaitPrepends(s, r) ==
    IF r.threw
    THEN LET errorMessage == createMessage(idCount + 1, "assistant", ErrorText)
         IN  [conversations |->
                updateConversation(conversations, s.conversationId,
                    [messages |-> <<errorMessage>> \o s.updatedMessages]),
              isTyping |-> FALSE, promise |-> "fulfilled"]
    ELSE LET assistantMessage ==
                createMessage(idCount + 1, "assistant", r.value.response)
         IN  [conversations |->
                updateConversation(conversations, s.conversationId,
                    [messages |-> <<assistantMessage>> \o s.updatedMessages]),
              isTyping |-> FALSE, promise |-> "fulfilled"]

\* sendMessage after the await: try / catch / finally on the result r of
\* sendChatMessage; s holds the locals of the suspended call
sendMessageAfterAwait(s, r) ==
    IF r.threw
    THEN LET errorMessage == createMessage(idCount + 1, "assistant", ErrorText)
         IN  [conversations |->
                updateConversation(conversations, s.conversationId,
                    [messages |-> Append(s.updatedMessages, errorMessage)]),
              isTyping |-> FALSE, promise |-> "fulfilled"]
    ELSE LET assistantMessage ==
                createMessage(idCount + 1, "assistant", r.value.response)
         IN  [conversations |->
                updateConversation(conversations, s.conversationId,
                    [messages |-> Append(s.updatedMessages, assistantMessage)]),
              isTyping |-> FALSE, promise |-> "fulfilled"]

(* sendMessage from the moment sendChatMessage settles *)
sendMessageSettle(s, res) ==
    /\ s \in sends
    /\ sends' = sends \ {s}
    /\ LET after == sendMessageAfterAwait(s, sendChatMessage(res))
       IN  /\ conversations' = after.conversations
           /\ isTyping' = after.isTyping
           /\ rejected' = Settled("sendMessage", after.promise)
    /\ idCount' = idCount + 1
    /\ UNCHANGED <<hasWindow, localStorage, now, activeConversationId,
                   isLoading, loadPc, gets, reqCount, opCount>>

(* ------------------------------- ChatPage ----------------------------- *)

\* messages: activeConversation?.messages ?? []
messages ==
    IF activeConversation = 0 THEN <<>>
    ELSE conversations[activeConversation].messages

hasMessages == Len(messages) > 0

\* <Composer onSend={sendMessage} disabled={isTyping} />
ComposerSubmit(message) ==
    /\ loadPc # "mount"
    /\ IF Trim(message) # <<>> /\ ~isTyping
       THEN sendMessage(Trim(message))
       ELSE UNCHANGED vars

\* <WelcomeEmptyState onSelectPrompt={sendMessage} />, rendered when there
\* are no messages to show
QuickPromptSelect(prompt) ==
    /\ loadPc # "mount"
    /\ ~hasMessages
    /\ sendMessage(prompt)

\* a click on a row of the sidebar, which lists sortedConversations
SidebarSelect(i) ==
    /\ i \in 1..Len(sortedConversations)
    /\ selectConversation(sortedConversations[i].id)

(* ------------------------------ the clock ----------------------------- *)

Tick ==
    /\ now < MaxTime
    /\ now' = now + 1
    /\ UNCHANGED <<hasWindow, localStorage, idCount, conversations,
                   activeConversationId, isLoading, isTyping, loadPc, gets,
                   sends, reqCount, opCount, rejected>>

(* ---------------------------- specification --------------------------- *)

\* the hooks as ChatPage's first render leaves them
InitHooks ==
    /\ now = 0
    /\ conversations = <<>>
    /\ activeConversationId = Null
    /\ isLoading = TRUE
    /\ isTyping = FALSE
    /\ loadPc = "mount"
    /\ gets = {}
    /\ sends = {}
    /\ reqCount = 0
    /\ opCount = 0
    /\ rejected = {}

\* no library function has been called directly
NoCalls == <<>>

Init ==
    /\ hasWindow \in BOOLEAN
    /\ localStorage = NoUser
    /\ idCount = 0
    /\ InitHooks
    /\ caller = NoCalls

\* the page calls the library only through its hooks
Next ==
    \/ loadSessions /\ UNCHANGED caller
    \/ \E res \in ListResponses : loadSessionsSettle(res) /\ UNCHANGED caller
    \/ \E i \in 1..(MaxRemote + MaxOps) : SidebarSelect(i) /\ UNCHANGED caller
    \/ \E g \in gets : \E res \in GetResponses :
           selectConversationSettle(g, res) /\ UNCHANGED caller
    \/ createConversation /\ UNCHANGED caller
    \/ \E m \in ComposerInputs : ComposerSubmit(m) /\ UNCHANGED caller
    \/ \E p \in QUICK_PROMPTS : QuickPromptSelect(p) /\ UNCHANGED caller
    \/ \E s \in sends : \E res \in ChatResponses :
           sendMessageSettle(s, res) /\ UNCHANGED caller
    \/ Tick /\ UNCHANGED caller

Spec == Init /\ [][Next]_vars

\* the chat requests settle: a fetch() ends with a response or a rejection
FairSpec ==
    /\ Spec
    /\ WF_vars(\E s \in sends : \E res \in ChatResponses :
                   sendMessageSettle(s, res) /\ UNCHANGED caller)

\* the mount effect runs once the page is rendered, and the request for
\* the session list ends with a response or a rejection
MountFairSpec ==
    /\ Spec
    /\ WF_vars(loadSessions /\ UNCHANGED caller)
    /\ WF_vars(\E res \in ListResponses :
                   loadSessionsSettle(res) /\ UNCHANGED caller)

(* ------------------- the repository, called directly ------------------ *)

\* status codes a response to GET /api/v1/sessions/{id} may carry: the
\* edges of the 2xx range, not-found and its neighbours, other failures
StatusCodes ==
    {199, 200, 201, 204, 298, 299, 300, 301, 304, 400, 401, 403, 404, 405,
     500, 503}

\* what fetch() may end with: a rejection, a response without a usable body,
\* or a 2xx response whose body is a well-formed session
AnyGetResponses ==
    {NetworkError}
      \cup {[status |-> c, failed |-> FALSE] :
               c \in {c \in StatusCodes : c < 200 \/ c > 299}}
      \cup {[status |-> c, failed |-> FALSE, title |-> RemoteTitle,
             messages |-> RemoteMessages(n)] :
               c \in {c \in StatusCodes : c >= 200 /\ c <= 299},
               n \in 0..MaxTranscript}

\* apiRepo.getSession(userId, sessionId) called once; res is what the
\* service answers
CallGetSession(sessionId, res) ==
    /\ caller = NoCalls
    /\ caller' = <<[fn |-> "getSession", sessionId |-> sessionId,
                    res |-> res, ret |-> getSession(sessionId, res)]>>
    /\ UNCHANGED <<hasWindow, localStorage, idCount>>
    /\ UNCHANGED hooks

RepositoryInit ==
    /\ hasWindow = TRUE
    /\ localStorage = NoUser
    /\ idCount = 0
    /\ InitHooks
    /\ caller = NoCalls

RepositoryNext ==
    \/ \E i \in 1..MaxRemote : \E res \in AnyGetResponses :
           CallGetSession(0 - i, res)
    \/ Tick /\ UNCHANGED caller

RepositorySpec == RepositoryInit /\ [][RepositoryNext]_vars

(* --------------- the device identity, called directly ---------------- *)

CallGetOrCreateUserId ==
    /\ Len(caller) < MaxCalls
    /\ LET u == getOrCreateUserId
       IN  /\ caller' = Append(caller, [fn |-> "getOrCreateUserId",
                                        threw |-> FALSE, ret |-> u.userId])
           /\ localStorage' = u.stored
           /\ idCount' = u.ids
    /\ UNCHANGED hasWindow
    /\ UNCHANGED hooks

CallClearUserId ==
    /\ Len(caller) < MaxCalls
    /\ LET c == clearUserId
       IN  /\ caller' = Append(caller, [fn |-> "clearUserId",
                                        threw |-> c.threw])
           /\ localStorage' = c.stored
    /\ UNCHANGED <<hasWindow, idCount>>
    /\ UNCHANGED hooks

CallHasUserId ==
    /\ Len(caller) < MaxCalls
    /\ caller' = Append(caller, [fn |-> "hasUserId", threw |-> FALSE,
                                 ret |-> hasUserId])
    /\ UNCHANGED <<hasWindow, localStorage, idCount>>
    /\ UNCHANGED hooks

\* in a browser (window defined, nothing stored yet) or on the server
IdentityInit ==
    /\ hasWindow \in BOOLEAN
    /\ localStorage = NoUser
    /\ idCount = 0
    /\ InitHooks
    /\ caller = NoCalls

IdentityNext ==
    \/ CallGetOrCreateUserId
    \/ CallClearUserId
    \/ CallHasUserId

IdentitySpec == IdentityInit /\ [][IdentityNext]_vars

(* ------------------ the title helper, called directly ----------------- *)

\* letters, all different
Alphabet ==
    <<"a", "b", "c", "d", "e", "f", "g", "h", "i", "j", "k", "l", "m", "n",
      "o", "p", "q", "r", "s", "t", "u", "v", "w", "x", "y", "z", "A", "B",
      "C", "D", "E", "F", "G", "H">>

Word(n) == SubSeq(Alphabet, 1, n)

Blanks(k) == [i \in 1..k |-> " "]

LongMessage ==
    <<"T", "e", "l", "l", " ", "m", "e", " ", "a", "b", "o", "u", "t", " ",
      "M", "o", "n", "d", "s", "t", "a", "d", "t", " ", "a", "n", "d", " ",
      "t", "h", "e", " ", "K", "n", "i", "g", "h", "t", "s", " ", "o", "f",
      " ", "F", "a", "v", "o", "n", "i", "u", "s", " ", "p", "l", "e", "a",
      "s", "e">>

\* first messages: a run of letters of each length up to MaxText with
\* blanks around it, a message with blanks inside, a long sentence, "hi"
Messages ==
    {Blanks(k) \o Word(n) \o Blanks(j) :
        k \in 0..MaxPad, j \in 0..MaxPad, n \in 0..MaxText}
      \cup {Word(n) \o Blanks(1) \o Word(MaxText - n) : n \in 1..(MaxText - 1)}
      \cup {LongMessage, <<"h", "i">>}

\* deriveTitleFromMessage(message) called once
CallDeriveTitleFromMessage(message) ==
    /\ caller = NoCalls
    /\ caller' = <<[fn |-> "deriveTitleFromMessage", message |-> message,
                    ret |-> deriveTitleFromMessage(message)]>>
    /\ UNCHANGED <<hasWindow, localStorage, idCount>>
    /\ UNCHANGED hooks

TitleInit ==
    /\ hasWindow = TRUE
    /\ localStorage = NoUser
    /\ idCount = 0
    /\ InitHooks
    /\ caller = NoCalls

TitleNext == \E m \in Messages : CallDeriveTitleFromMessage(m)

TitleSpec == TitleInit /\ [][TitleNext]_vars

(* ------------- the page once a listed session is selected ------------ *)

\* the hooks after the mount effect has loaded a list of one session and
\* the user has clicked its row: getSession is outstanding
RemoteSessionSelected ==
    /\ hasWindow = TRUE
    /\ localStorage = 1
    /\ idCount = 1
    /\ now = 0
    /\ conversations = <<[id |-> 0 - 1, title |-> RemoteTitle,
                          messages |-> <<>>, createdAt |-> 0,
                          updatedAt |-> 0]>>
    /\ activeConversationId = 0 - 1
    /\ isLoading = FALSE
    /\ isTyping = FALSE
    /\ loadPc = "done"
    /\ gets = {[rid |-> 1, userId |-> 1, sessionId |-> 0 - 1]}
    /\ sends = {}
    /\ reqCount = 1
    /\ rejected = {}

\* the page taken up in that state, with MaxOps further user operations
SelectedInit ==
    /\ RemoteSessionSelected
    /\ opCount = 0
    /\ caller = NoCalls

\* the mount effect has run: what remains are the user's events, the
\* settling of requests and the clock
SelectedNext ==
    \/ \E i \in 1..(MaxRemote + MaxOps) : SidebarSelect(i) /\ UNCHANGED caller
    \/ \E g \in gets : \E res \in GetResponses :
           selectConversationSettle(g, res) /\ UNCHANGED caller
    \/ createConversation /\ UNCHANGED caller
    \/ \E m \in ComposerInputs : ComposerSubmit(m) /\ UNCHANGED caller
    \/ \E p \in QUICK_PROMPTS : QuickPromptSelect(p) /\ UNCHANGED caller
    \/ \E s \in sends : \E res \in ChatResponses :
           sendMessageSettle(s, res) /\ UNCHANGED caller
    \/ Tick /\ UNCHANGED caller

SelectedSpec == SelectedInit /\ [][SelectedNext]_vars

(* ------------------------- auxiliary predicates ----------------------- *)

\* message m is in the transcript of the conversation id of convs
InTranscript(convs, id, m) ==
    \E i \in 1..Len(convs) :
        /\ convs[i].id = id
        /\ \E k \in 1..Len(convs[i].messages) : convs[i].messages[k] = m

\* a message made by createMessage("user", ...) in sendMessage
IsLocalUserMessage(m) == m.role = "user" /\ m.id > 0

\* this step is the settling of the suspended send s
SettlesNow(s) == s \in sends /\ s \notin sends'

\* this step issues a chat request
IssuesChatRequest == \E s \in sends' : s \notin sends

(* -------------------------------- C1 ---------------------------------- *)

\* C1: a user message that send has appended to a conversation stays in
\* that conversation's transcript in every later state, whatever load,
\* select, create or send step follows.
C1_OptimisticAppendNeverRetracted ==
    [][\A i \in 1..Len(conversations) :
         \A k \in 1..Len(conversations[i].messages) :
            IsLocalUserMessage(conversations[i].messages[k])
               => InTranscript(conversations', conversations[i].id,
                               conversations[i].messages[k])]_vars

(* -------------------------------- C2 ---------------------------------- *)

\* C2: when the chat request of a send fails, the targeted conversation
\* holds, right after, the transcript it held before followed by one
\* assistant message with the apology text, and that transcript contains
\* the user message of the send.
C2_FailedSendAppendsApology ==
    [][\A s \in sends : \A res \in ChatResponses :
         (sendMessageSettle(s, res) /\ sendChatMessage(res).threw)
            => LET before == FindIndex(conversations, s.conversationId)
                   after == FindIndex(conversations', s.conversationId)
               IN  /\ before # 0
                   /\ after # 0
                   /\ LET old == conversations[before].messages
                           new == conversations'[after].messages
                       IN  /\ Len(new) = Len(old) + 1
                           /\ SubSeq(new, 1, Len(old)) = old
                           /\ new[Len(new)].role = "assistant"
                           /\ new[Len(new)].content = ErrorText
                           /\ old # <<>>
                           /\ old[Len(old)] =
                                 s.updatedMessages[Len(s.updatedMessages)]]_vars

(* -------------------------------- C3 ---------------------------------- *)

\* C3: a send made while no conversation is active adds exactly one
\* conversation and makes it active, and when its chat request succeeds
\* that conversation holds exactly two messages, the user message and
\* then the assistant message.
C3_SendWithoutActiveCreatesOne ==
    [][/\ (IssuesChatRequest /\ activeConversation = 0)
            => /\ Len(conversations') = Len(conversations) + 1
               /\ FindIndex(conversations, activeConversationId') = 0
               /\ FindIndex(conversations', activeConversationId') # 0
       /\ \A s \in sends : \A res \in ChatResponses :
            (/\ sendMessageSettle(s, res)
             /\ ~sendChatMessage(res).threw
             /\ s.activeConversation = Null)
               => LET after == FindIndex(conversations', s.conversationId)
                  IN  /\ after # 0
                      /\ LET new == conversations'[after].messages
                          IN  /\ Len(new) = 2
                              /\ new[1] = s.updatedMessages[1]
                              /\ new[1].role = "user"
                              /\ new[2].role = "assistant"]_vars

(* -------------------------------- C4 ---------------------------------- *)

\* C4: while the sending flag is set no step issues a chat request, so at
\* most one chat request is outstanding at any time.
C4_NoSendWhileSending ==
    [][(isTyping => ~IssuesChatRequest) /\ Cardinality(sends') <= 1]_vars

(* -------------------------------- C5 ---------------------------------- *)

\* C5: no failure of listSessions, getSession or sendChatMessage leaves
\* load, select or send: the promise of none of the three handlers is ever
\* rejected, whatever the remote answers.
C5_NoRejectionEscapes == rejected = {}

\* load has settled and a failed chat request has been turned into the
\* apology message
C5_Witness ==
    /\ loadPc = "done"
    /\ gets = {}
    /\ \E i \in 1..Len(conversations) :
          \E k \in 1..Len(conversations[i].messages) :
             conversations[i].messages[k].content = ErrorText

(* -------------------------------- C6 ---------------------------------- *)

\* C6: the step in which the chat request of a send settles clears the
\* sending flag, on success and on failure, and whenever the flag is set it
\* is cleared later on.
C6_SendingReturnsToIdle ==
    /\ [][(\E s \in sends : SettlesNow(s)) => ~isTyping']_vars
    /\ (isTyping ~> ~isTyping)

\* a send has settled with a reply and the controller is idle again
C6_Witness ==
    /\ ~isTyping
    /\ sends = {}
    /\ \E i \in 1..Len(conversations) :
          LET ms == conversations[i].messages
          IN  /\ Len(ms) >= 2
              /\ ms[Len(ms)].role = "assistant"
              /\ ms[Len(ms)].id > 0

(* -------------------------------- C7 ---------------------------------- *)

\* C7: a send made when getOrCreateUserId yields the empty identity changes
\* nothing: no conversation, no message, no title, not the sending flag,
\* and no chat request is issued.
C7_NoIdentityNoMutation ==
    [][(/\ getOrCreateUserId.userId = NoUser
        /\ \/ \E m \in ComposerInputs : ComposerSubmit(m)
           \/ \E p \in QUICK_PROMPTS : QuickPromptSelect(p))
          => UNCHANGED <<conversations, activeConversationId, isTyping,
                         sends, reqCount, idCount, localStorage>>]_vars

\* no identity, the mount effect is over, and a conversation is active that
\* a send would target
C7_Witness ==
    /\ getOrCreateUserId.userId = NoUser
    /\ loadPc = "done"
    /\ activeConversation # 0
    /\ ~hasMessages

(* -------------------------------- C8 ---------------------------------- *)

\* C8: no step of a send (the optimistic update, the update made when the
\* chat request settles) shortens the transcript of a conversation.
C8_TranscriptLengthMonotone ==
    [][(sends' # sends)
          => \A i \in 1..Len(conversations) :
                \A j \in 1..Len(conversations') :
                   conversations'[j].id = conversations[i].id
                      => Len(conversations'[j].messages)
                            >= Len(conversations[i].messages)]_vars

(* -------------------------------- C9 ---------------------------------- *)

\* C9: no update made by a send moves the updatedAt of a conversation back,
\* also when the earlier value came from the remote list.
C9_UpdatedAtMonotone ==
    [][(sends' # sends)
          => \A i \in 1..Len(conversations) :
                \A j \in 1..Len(conversations') :
                   conversations'[j].id = conversations[i].id
                      => conversations'[j].updatedAt
                            >= conversations[i].updatedAt]_vars

(* -------------------------------- C10 --------------------------------- *)

\* how many times c occurs in the sequence q
Occurrences(q, c) == Cardinality({i \in 1..Len(q) : q[i] = c})

\* C10: the list handed to callers holds exactly the conversations of the
\* directory, each as often as the directory does, in descending order of
\* updatedAt.
C10_ExposedListSortedDescending ==
    /\ Len(sortedConversations) = Len(conversations)
    /\ \A i \in 1..Len(conversations) :
          Occurrences(sortedConversations, conversations[i])
             = Occurrences(conversations, conversations[i])
    /\ \A i \in 1..(Len(sortedConversations) - 1) :
          sortedConversations[i].updatedAt
             >= sortedConversations[i + 1].updatedAt

\* the directory holds its conversations in an order that is not the
\* descending one
C10_Witness ==
    \E i \in 1..Len(conversations) : \E j \in 1..Len(conversations) :
        i < j /\ conversations[i].updatedAt < conversations[j].updatedAt

(* -------------------------------- C11 --------------------------------- *)

\* the response is a success: fetch() did not reject and the status is 2xx
IsSuccess(res) == ~res.failed /\ res.status \in 200..299

\* C11: load always settles, and with loading false: when no identity is
\* available, when the session list arrives and when the request fails.
\* When the list arrives the directory holds exactly the returned sessions,
\* in the order returned and with empty transcripts; when the request fails
\* the directory is empty.  Loading never becomes true again.
C11_LoadSettlesNotLoading ==
    /\ [][(loadPc # "done" /\ loadPc' = "done") => ~isLoading']_vars
    /\ [][~isLoading => ~isLoading']_vars
    /\ [][\A res \in ListResponses :
            loadSessionsSettle(res)
               => IF IsSuccess(res)
                  THEN /\ Len(conversations') = Len(res.sessions)
                       /\ \A i \in 1..Len(res.sessions) :
                             /\ conversations'[i].id = res.sessions[i].id
                             /\ conversations'[i].title = res.sessions[i].title
                             /\ conversations'[i].messages = <<>>
                             /\ conversations'[i].updatedAt
                                   = res.sessions[i].updated_at
                  ELSE conversations' = <<>>]_vars
    /\ <>(loadPc = "done" /\ ~isLoading)

\* the load has settled with the sessions of the remote service, replacing
\* a conversation made locally in the meantime
C11_Witness ==
    /\ loadPc = "done"
    /\ ~isLoading
    /\ idCount > 1
    /\ Len(conversations) = MaxRemote
    /\ \A i \in 1..Len(conversations) : conversations[i].id < 0

(* -------------------------------- C12 --------------------------------- *)

\* the sequence q without its k-th element
Without(q, k) == SubSeq(q, 1, k - 1) \o SubSeq(q, k + 1, Len(q))

\* C12: create is one synchronous step that issues no remote request.  It
\* adds exactly one conversation, whose identifier no conversation of the
\* directory has, with an empty transcript, the title "New Conversation"
\* and equal creation and modification times; it makes that conversation
\* the active one and leaves the conversations that existed as they were.
C12_CreateAddsOneActiveConversation ==
    [][createConversation
         => /\ gets' = gets
            /\ sends' = sends
            /\ reqCount' = reqCount
            /\ loadPc' = loadPc
            /\ \E k \in 1..Len(conversations') :
                  LET c == conversations'[k]
                  IN  /\ \A i \in 1..Len(conversations) :
                            conversations[i].id # c.id
                      /\ c.messages = <<>>
                      /\ c.title
                            = <<"N", "e", "w", " ", "C", "o", "n", "v", "e",
                                "r", "s", "a", "t", "i", "o", "n">>
                      /\ c.createdAt = c.updatedAt
                      /\ activeConversationId' = c.id
                      /\ Without(conversations', k) = conversations]_vars

\* a conversation made by create is the active one, next to a conversation
\* that was there before
C12_Witness ==
    /\ Len(conversations) > 1
    /\ \E k \in 1..Len(conversations) :
          /\ conversations[k].id > 0
          /\ conversations[k].id = activeConversationId
          /\ conversations[k].messages = <<>>
          /\ conversations[k].title = NewConversationTitle

(* -------------------------------- C13 --------------------------------- *)

\* C13: getSession yields the absent value exactly when the service
\* answers with the not-found status, yields the conversation of the
\* response body on a success status, and raises on a rejected request and
\* on every other status; the absent value is a normal return, so a caller
\* tells it from a failure.
C13_GetSessionAbsentOnlyOnNotFound ==
    \A k \in 1..Len(caller) :
       caller[k].fn = "getSession"
          => LET res == caller[k].res
                 r == caller[k].ret
             IN  /\ (~res.failed /\ res.status = 404)
                       <=> (~r.threw /\ r.value.absent)
                 /\ IsSuccess(res)
                       => /\ ~r.threw
                          /\ ~r.value.absent
                          /\ r.value.id = caller[k].sessionId
                          /\ r.value.messages = res.messages
                          /\ r.value.title = res.title
                 /\ (res.failed \/ (~IsSuccess(res) /\ res.status # 404))
                       => r.threw

\* a call answered with the not-found status has returned the absent value
C13_Witness ==
    \E k \in 1..Len(caller) :
       /\ caller[k].fn = "getSession"
       /\ caller[k].res.status = 404
       /\ ~caller[k].ret.threw
       /\ caller[k].ret.value.absent

(* -------------------------------- C14 --------------------------------- *)

\* the k-th direct call was a call of fn
Called(k, fn) == k \in 1..Len(caller) /\ caller[k].fn = fn

\* C14: where storage is available, getOrCreate never returns the empty
\* value, two calls of getOrCreate with no clear between them return the
\* same identity, two calls with a clear between them return different
\* identities, and the identity a call returns is the one persisted.
C14_IdentityStableUntilCleared ==
    hasWindow
       => /\ \A i \in 1..Len(caller) : \A j \in (i + 1)..Len(caller) :
                (Called(i, "getOrCreateUserId")
                   /\ Called(j, "getOrCreateUserId"))
                   => /\ caller[i].ret # NoUser
                      /\ caller[j].ret # NoUser
                      /\ (caller[i].ret = caller[j].ret)
                            <=> ~\E k \in (i + 1)..(j - 1) :
                                    Called(k, "clearUserId")
          /\ Called(Len(caller), "getOrCreateUserId")
                => localStorage = caller[Len(caller)].ret

\* an identity was returned, cleared, and a different one returned and
\* persisted
C14_Witness ==
    /\ hasWindow
    /\ Len(caller) = 3
    /\ Called(1, "getOrCreateUserId")
    /\ Called(2, "clearUserId")
    /\ Called(3, "getOrCreateUserId")
    /\ caller[3].ret # caller[1].ret
    /\ localStorage = caller[3].ret

(* -------------------------------- C15 --------------------------------- *)

\* C15 as stated: a clear called where the persistence medium cannot be
\* accessed (no window) fails.
C15_ClearFailsWithoutStorage ==
    \A k \in 1..Len(caller) :
       (Called(k, "clearUserId") /\ ~hasWindow) => caller[k].threw

\* C15: clear completes normally in every context.  Where there is no
\* window it leaves the persisted identity untouched; where there is one
\* nothing is persisted afterwards.
C15_ClearCompletesNormally ==
    /\ [](\A k \in 1..Len(caller) :
             Called(k, "clearUserId") => ~caller[k].threw)
    /\ [][CallClearUserId
            => IF hasWindow
               THEN localStorage' = NoUser
               ELSE localStorage' = localStorage]_vars

\* clear was called where there is no window, and returned
C15_Witness ==
    /\ ~hasWindow
    /\ \E k \in 1..Len(caller) :
          Called(k, "clearUserId") /\ ~caller[k].threw

(* -------------------------------- C16 --------------------------------- *)

\* C16 as stated: the title of the long sentence is "Tell me about
\* Mondstad..." and the title of "hi" is "hi".
C16_TitleOfLongMessageAsStated ==
    \A k \in 1..Len(caller) :
       Called(k, "deriveTitleFromMessage")
          => /\ caller[k].message = LongMessage
                  => caller[k].ret =
                        <<"T", "e", "l", "l", " ", "m", "e", " ", "a", "b",
                          "o", "u", "t", " ", "M", "o", "n", "d", "s", "t",
                          "a", "d", ".", ".", ".">>
             /\ caller[k].message = <<"h", "i">>
                  => caller[k].ret = <<"h", "i">>

\* C16: the title of the long sentence is its first 25 characters followed
\* by the ellipsis, "Tell me about Mondstadt a...", and the title of "hi"
\* is "hi".
C16_TitleOfLongMessage ==
    \A k \in 1..Len(caller) :
       Called(k, "deriveTitleFromMessage")
          => /\ caller[k].message = LongMessage
                  => caller[k].ret =
                        <<"T", "e", "l", "l", " ", "m", "e", " ", "a", "b",
                          "o", "u", "t", " ", "M", "o", "n", "d", "s", "t",
                          "a", "d", "t", " ", "a", ".", ".", ".">>
             /\ caller[k].message = <<"h", "i">>
                  => caller[k].ret = <<"h", "i">>

\* the title of the long sentence has been derived
C16_Witness ==
    \E k \in 1..Len(caller) :
       /\ Called(k, "deriveTitleFromMessage")
       /\ caller[k].message = LongMessage
       /\ Len(caller[k].ret) = 28

(* -------------------------------- C17 --------------------------------- *)

\* t is m without its leading and trailing blanks
IsTrimmed(t, m) ==
    \E lo \in 1..(Len(m) + 1) : \E hi \in (lo - 1)..Len(m) :
       /\ t = SubSeq(m, lo, hi)
       /\ \A i \in 1..(lo - 1) : m[i] = " "
       /\ \A i \in (hi + 1)..Len(m) : m[i] = " "
       /\ t = <<>> \/ (t[1] # " " /\ t[Len(t)] # " ")

\* C17: for every message the title is the message without its leading
\* and trailing blanks when that has at most 25 characters, and otherwise
\* the first 25 characters of it followed by "..."; nothing is appended to
\* a message that is not truncated.
C17_TitleIsTrimmedOrTruncated ==
    \A k \in 1..Len(caller) :
       Called(k, "deriveTitleFromMessage")
          => LET m == caller[k].message
                 ret == caller[k].ret
             IN  IF Len(ret) > 25
                 THEN /\ Len(ret) = 28
                      /\ \A i \in 26..28 : ret[i] = "."
                      /\ \E lo \in 1..(Len(m) - 25) :
                            /\ SubSeq(ret, 1, 25) = SubSeq(m, lo, lo + 24)
                            /\ \A i \in 1..(lo - 1) : m[i] = " "
                            /\ m[lo] # " "
                            /\ \E hi \in (lo + 25)..Len(m) : m[hi] # " "
                 ELSE IsTrimmed(ret, m)

\* a message of exactly 25 letters between blanks kept whole, and a
\* message of 26 cut
C17_Witness ==
    \E k \in 1..Len(caller) :
       /\ Called(k, "deriveTitleFromMessage")
       /\ caller[k].message = Blanks(1) \o Word(25) \o Blanks(1)
       /\ caller[k].ret = Word(25)

(* -------------------------------- C18 --------------------------------- *)

\* the last message of the transcript of the conversation id of convs is m
EndsWith(convs, id, m) ==
    \E i \in 1..Len(convs) :
        /\ convs[i].id = id
        /\ convs[i].messages # <<>>
        /\ convs[i].messages[Len(convs[i].messages)] = m

\* C18: the session named in the chat request of a send is the
\* conversation that received the optimistic user message, and when the
\* request resolves the reply (or the apology) is appended to that same
\* conversation, whichever conversation is active by then, and no other
\* conversation is changed.
C18_ReplyGoesToTheConversationOfTheRequest ==
    /\ [][\A s \in sends' :
            s \notin sends
               => LET userMessage == s.updatedMessages[Len(s.updatedMessages)]
                  IN  /\ EndsWith(conversations', s.sessionId, userMessage)
                      /\ \A i \in 1..Len(conversations') :
                            conversations'[i].id # s.sessionId
                               => ~InTranscript(conversations',
                                                conversations'[i].id,
                                                userMessage)]_vars
    /\ [][\A s \in sends : \A res \in ChatResponses :
            sendMessageSettle(s, res)
               => /\ \E i \in 1..Len(conversations') :
                        LET ms == conversations'[i].messages
                        IN  /\ conversations'[i].id = s.sessionId
                            /\ ms # <<>>
                            /\ ms[Len(ms)].role = "assistant"
                            /\ ms[Len(ms)].id = idCount + 1
                  /\ Len(conversations') = Len(conversations)
                  /\ \A i \in 1..Len(conversations) :
                        conversations[i].id # s.sessionId
                           => conversations'[i] = conversations[i]]_vars

\* the second half restricted to the sends whose conversation is still in
\* the directory when the request resolves (this one holds: a reply is
\* lost only when the conversation itself is)
C18_ReplyGoesToTheConversationIfPresent ==
    [][\A s \in sends : \A res \in ChatResponses :
         (sendMessageSettle(s, res)
            /\ FindIndex(conversations, s.sessionId) # 0)
            => /\ \E i \in 1..Len(conversations') :
                     LET ms == conversations'[i].messages
                     IN  /\ conversations'[i].id = s.sessionId
                         /\ ms # <<>>
                         /\ ms[Len(ms)].role = "assistant"
                         /\ ms[Len(ms)].id = idCount + 1
               /\ Len(conversations') = Len(conversations)
               /\ \A i \in 1..Len(conversations) :
                     conversations[i].id # s.sessionId
                        => conversations'[i] = conversations[i]]_vars

(* -------------------------------- C19 --------------------------------- *)

\* p is a prefix of q
IsPrefix(p, q) == Len(p) <= Len(q) /\ SubSeq(q, 1, Len(p)) = p

\* C19: every update of a transcript made by a send (the optimistic
\* update, the update made when the chat request settles) extends the
\* transcript the conversation has when the update is applied: the
\* transcript before the step is a prefix of the transcript after it.
C19_SendUpdatesExtendTheTranscript ==
    [][(sends' # sends)
          => \A i \in 1..Len(conversations) :
                \A j \in 1..Len(conversations') :
                   conversations'[j].id = conversations[i].id
                      => IsPrefix(conversations[i].messages,
                                  conversations'[j].messages)]_vars

(* -------------------------------- C20 --------------------------------- *)

\* this step is the settling of the suspended getSession g
GetSettlesNow(g) == g \in gets /\ g \notin gets'

\* C20: when the getSession started by a select resolves, a transcript
\* that has become non-empty since the select is not overwritten: every
\* message it holds is still in it after the merge.
C20_MergeKeepsLocalMessages ==
    [][\A g \in gets :
         GetSettlesNow(g)
            => \A i \in 1..Len(conversations) :
                  conversations[i].id = g.sessionId
                     => \A k \in 1..Len(conversations[i].messages) :
                           InTranscript(conversations', g.sessionId,
                                        conversations[i].messages[k])]_vars

(* -------------------------------- C21 --------------------------------- *)

\* C21: in every reachable state the active conversation id is null or the
\* id of a conversation the directory holds.
C21_ActiveIdIsNullOrPresent ==
    \/ activeConversationId = Null
    \/ \E i \in 1..Len(conversations) :
          conversations[i].id = activeConversationId

(* -------------------------------- C22 --------------------------------- *)

\* C22: whenever a chat request issued by a send is outstanding the typing
\* flag is true; the flag is cleared only when no send remains in flight.
C22_TypingWhileAnySendInFlight ==
    sends # {} => isTyping

(* -------------------------------- C24 --------------------------------- *)

\* C24: a select of a conversation whose transcript holds one or more
\* messages issues no getSession request: it makes that conversation the
\* active one and changes nothing else of the directory.
C24_NoFetchForLoadedConversation ==
    [][\A i \in 1..(MaxRemote + MaxOps) :
         (SidebarSelect(i) /\ Len(sortedConversations[i].messages) > 0)
            => /\ gets' = gets
               /\ reqCount' = reqCount
               /\ conversations' = conversations
               /\ sends' = sends
               /\ activeConversationId' = sortedConversations[i].id]_vars

\* a conversation with messages has been selected again after a newer
\* conversation was made, and no request is in flight
C24_Witness ==
    /\ gets = {}
    /\ \E i \in 1..Len(conversations) : \E j \in 1..Len(conversations) :
          /\ conversations[i].id = activeConversationId
          /\ Len(conversations[i].messages) > 0
          /\ conversations[j].id > conversations[i].id
          /\ conversations[j].messages = <<>>
          /\ conversations[j].title = NewConversationTitle
    /\ reqCount = 1

(* -------------------------------- C25 --------------------------------- *)

\* this step issues a getSession request
IssuesGetSession == \E g \in gets' : g \notin gets

\* C25 as stated: a getSession request is issued only for a conversation
\* with an empty transcript that is known to the remote service (a row of
\* the remote list); no request is issued for a conversation made locally
\* that has exchanged nothing.
C25_FetchOnlyForKnownRemote ==
    [][\A g \in gets' :
         g \notin gets
            => /\ g.sessionId < 0
               /\ \A i \in 1..Len(conversations) :
                     conversations[i].id = g.sessionId
                        => conversations[i].messages = <<>>]_vars

\* C25: with an identity available, a select issues a getSession request
\* exactly when the local transcript of the targeted conversation is
\* empty, whether the conversation came from the remote list or was made
\* locally and has exchanged nothing.
C25_FetchExactlyWhenTranscriptEmpty ==
    [][\A i \in 1..(MaxRemote + MaxOps) :
         (SidebarSelect(i) /\ getOrCreateUserId.userId # NoUser)
            => /\ IssuesGetSession
                     <=> sortedConversations[i].messages = <<>>
               /\ \A g \in gets' :
                     g \notin gets
                        => g.sessionId = sortedConversations[i].id]_vars

\* a getSession request is in flight for a conversation made locally that
\* has exchanged nothing
C25_Witness ==
    \E g \in gets :
       /\ g.sessionId > 0
       /\ sends = {}
       /\ \E i \in 1..Len(conversations) :
             /\ conversations[i].id = g.sessionId
             /\ conversations[i].messages = <<>>
             /\ conversations[i].title = NewConversationTitle

(* -------------------------------- C26 --------------------------------- *)

\* the position of message m in transcript ms, 0 when it is not there
Position(ms, m) ==
    IF \E k \in 1..Len(ms) : ms[k] = m
    THEN CHOOSE k \in 1..Len(ms) : ms[k] = m
    ELSE 0

\* C26: when the chat request of a send is issued the user message of the
\* send is already the last message of its conversation; the assistant
\* message (reply or apology) written when the request settles stands
\* after that user message; and in every transcript of every state each
\* assistant message made by a send stands right after a user message
\* made earlier by a send, never at the head of the transcript.
C26_AssistantMessageAfterItsUserMessage ==
    /\ [][\A s \in sends' :
            s \notin sends
               => EndsWith(conversations', s.conversationId,
                           s.updatedMessages[Len(s.updatedMessages)])]_vars
    /\ [][\A s \in sends :
            SettlesNow(s)
               => \A i \in 1..Len(conversations') :
                     LET ms == conversations'[i].messages
                         userMessage ==
                            s.updatedMessages[Len(s.updatedMessages)]
                     IN  \A k \in 1..Len(ms) :
                            (ms[k].role = "assistant" /\ ms[k].id = idCount + 1)
                               => /\ Position(ms, userMessage) # 0
                                  /\ Position(ms, userMessage) < k]_vars
    /\ [](\A i \in 1..Len(conversations) :
            LET ms == conversations[i].messages
            IN  \A k \in 1..Len(ms) :
                   (ms[k].role = "assistant" /\ ms[k].id > 0)
                      => /\ k > 1
                         /\ IsLocalUserMessage(ms[k - 1])
                         /\ ms[k - 1].id < ms[k].id)

\* an exchange has completed: the transcript ends with the user message
\* followed by the assistant message, and nothing is in flight
C26_Witness ==
    /\ sends = {}
    /\ \E i \in 1..Len(conversations) :
          LET ms == conversations[i].messages
          IN  /\ Len(ms) > 1
              /\ ms[Len(ms)].role = "assistant"
              /\ ms[Len(ms)].id > 0
              /\ IsLocalUserMessage(ms[Len(ms) - 1])

(* -------------------------------- C27 --------------------------------- *)

\* C27: the merge made when the getSession of a select returns a session
\* changes only the messages and the title of the selected conversation:
\* the directory keeps its length and order, the selected conversation
\* keeps its id, createdAt and updatedAt and takes the fetched transcript
\* and title, and every other conversation is unchanged.  When getSession
\* returns absent or fails, the directory is unchanged.  In both cases the
\* active id is the one the select set.
C27_MergeChangesOnlyMessagesAndTitle ==
    [][\A g \in gets : \A res \in GetResponses :
         selectConversationSettle(g, res)
            => /\ activeConversationId' = activeConversationId
               /\ IF IsSuccess(res)
                  THEN /\ Len(conversations') = Len(conversations)
                       /\ \A i \in 1..Len(conversations) :
                             IF conversations[i].id = g.sessionId
                             THEN /\ conversations'[i].id
                                       = conversations[i].id
                                  /\ conversations'[i].createdAt
                                       = conversations[i].createdAt
                                  /\ conversations'[i].updatedAt
                                       = conversations[i].updatedAt
                                  /\ conversations'[i].messages = res.messages
                                  /\ conversations'[i].title = res.title
                             ELSE conversations'[i] = conversations[i]
                  ELSE conversations' = conversations]_vars

\* a fetched transcript has been merged into a conversation of the remote
\* list after the clock moved on, and the conversation kept the updatedAt
\* the list gave it
C27_Witness ==
    /\ gets = {}
    /\ sends = {}
    /\ now > 0
    /\ \E i \in 1..Len(conversations) :
          /\ conversations[i].id < 0
          /\ Len(conversations[i].messages) = MaxTranscript
          /\ conversations[i].updatedAt = 0
          /\ conversations[i].id = activeConversationId

(* -------------------------------- C23 --------------------------------- *)

\* the title of the conversation id of convs
TitleOf(convs, id) == convs[FindIndex(convs, id)].title

\* the conversation id of the directory has had a user message sent to it:
\* its transcript holds one, or a send to it is in flight
HasHadUserMessage(id) ==
    \/ \E s \in sends : s.conversationId = id
    \/ \E i \in 1..Len(conversations) :
          /\ conversations[i].id = id
          /\ \E k \in 1..Len(conversations[i].messages) :
                conversations[i].messages[k].role = "user"

\* C23: the title of a conversation is derived on the send of its first
\* user message and on no other step: a send to a conversation that has
\* had a user message leaves its title as it is, a send of a first message
\* sets the title derived from that message, and the step that settles a
\* chat request changes no title.
C23_TitleDerivedOnceOnFirstMessage ==
    /\ [][\A s \in sends' :
            (s \notin sends /\ FindIndex(conversations, s.conversationId) # 0)
               => IF HasHadUserMessage(s.conversationId)
                  THEN TitleOf(conversations', s.conversationId)
                          = TitleOf(conversations, s.conversationId)
                  ELSE TitleOf(conversations', s.conversationId)
                          = deriveTitleFromMessage(s.message)]_vars
    /\ [][\A s \in sends :
            SettlesNow(s)
               => /\ Len(conversations') = Len(conversations)
                  /\ \A i \in 1..Len(conversations) :
                        conversations'[i].title = conversations[i].title]_vars

=============================================================================
